---- MODULE Spec2Model ----
(***************************************************************************)
(* A model of the reductor crate: the Reductor contract (new / reduce /    *)
(* into_result), the concrete reductors, the Option / tuple / ReductorPair *)
(* combinators, and the two entry points of the Reduce trait.              *)
(*                                                                         *)
(* Values.  A single-field wrapper struct (Sum(v), Product(v), Count(v),   *)
(* Min(v), Max(v), CountNonZero(v), product::State(v), NonEmptyState(v))   *)
(* is modelled by its field, and ReductorPair(a, b) by the tuple <<a, b>>. *)
(* Option is None == <<>> and Some(x) == <<x>>.  A float is the rational   *)
(* [num, den] in lowest terms that it approximates.  usize is UsizeBits    *)
(* wide.  The item type T of Sum, Product, Min and Max is the integers.    *)
(*                                                                         *)
(* Reductor types are values: [k |-> "Sum"], [k |-> "Option", a |-> R],    *)
(* [k |-> "Tuple", rs |-> <<R1, ..., Rn>>], [k |-> "ReductorPair", ...].   *)
(***************************************************************************)
EXTENDS Integers, Sequences, FiniteSets, TLC

\* Longest run of a reductor without a NonZeroUsize counter (values consumed).
MaxLen == 3
\* Items of the numeric reductors are 0..MaxVal.
MaxVal == 2
\* Width of usize in bits.
UsizeBits == 2

RECURSIVE Pow2(_)
Pow2(n) == IF n = 0 THEN 1 ELSE 2 * Pow2(n - 1)

\* usize::MAX
UsizeMax == Pow2(UsizeBits) - 1

Vals == 0..MaxVal
Bits == {0, 1}

VARIABLES
    R,                \* the reductor type the entry point is instantiated with
    entry,            \* "none" | "reduce_with" | "fold_with"
    init,             \* fold_with's init argument
    acc,              \* the accumulator Iterator::fold threads through reduce
    seen,             \* the items the iterator has yielded so far, in order
    result,           \* the value the entry point returned
    pc,               \* "start" | "fold" | "done" | "panicked"
    calls,            \* how often the entry point called new / reduce / into_result
    adapter,          \* how often the Option adapter R called its inner new / reduce
    overflow_checks   \* build profile: TRUE debug (overflow panics), FALSE release (wraps)

vars == <<R, entry, init, acc, seen, result, pc, calls, adapter, overflow_checks>>

-----------------------------------------------------------------------------
(* Option, Clone, usize arithmetic, floats                                  *)

None == <<>>
Some(x) == <<x>>
IsSome(o) == Len(o) = 1
Unwrap(o) == o[1]

\* A: Clone for the plain data the reductors take: an equal copy.
Clone(x) == x

\* a + b on usize in a release build: wraps modulo 2^UsizeBits.
usize_wrapping_add(a, b) == (a + b) % Pow2(UsizeBits)
\* a + b on usize overflows (a debug build panics here).
usize_add_overflows(a, b) == a + b > UsizeMax

RECURSIVE Gcd(_, _)
Gcd(a, b) == IF b = 0 THEN a ELSE Gcd(b, a % b)

\* The float with value n / d (d > 0), in lowest terms.
Float(n, d) ==
    LET g == Gcd(IF n < 0 THEN -n ELSE n, d)
    IN  IF n = 0 THEN [num |-> 0, den |-> 1] ELSE [num |-> n \div g, den |-> d \div g]

\* item.into(): an integer item as a float.
IntoFloat(item) == Float(item, 1)

\* mean.mul_add(count as f, item.into()) / (count + 1) as f
MeanStep(mean, count, item) ==
    Float(mean.num * count + item * mean.den, mean.den * (count + 1))

\* std::cmp::min / std::cmp::max on Ord values (min keeps the first of two
\* equal values, max the second).
cmp_min(a, b) == IF b < a THEN b ELSE a
cmp_max(a, b) == IF b < a THEN a ELSE b

\* Iterator::sum and Iterator::product of T over a sequence of T.
RECURSIVE iter_sum(_)
iter_sum(s) == IF s = <<>> THEN 0 ELSE Head(s) + iter_sum(Tail(s))
RECURSIVE iter_product(_)
iter_product(s) == IF s = <<>> THEN 1 ELSE Head(s) * iter_product(Tail(s))

-----------------------------------------------------------------------------
(* Reductor types                                                           *)

Count == [k |-> "Count"]
CountNonZero == [k |-> "CountNonZero"]
Sum == [k |-> "Sum"]
Product == [k |-> "Product"]
Min == [k |-> "Min"]
Max == [k |-> "Max"]
MinOpt == [k |-> "MinOpt"]       \* Min<Option<T>>
MaxOpt == [k |-> "MaxOpt"]       \* Max<Option<T>>
Mean == [k |-> "Mean"]
Option(r) == [k |-> "Option", a |-> r]
Tuple(rs) == [k |-> "Tuple", rs |-> rs]
ReductorPair(r1, r2) == [k |-> "ReductorPair", a |-> r1, b |-> r2]

RECURSIVE new(_, _)
RECURSIVE reduce(_, _, _)
RECURSIVE into_result(_, _)
RECURSIVE reduce_panics(_, _, _)
RECURSIVE HasDefault(_)
RECURSIVE default(_)

-----------------------------------------------------------------------------
(* reductors/count.rs                                                       *)

Count_default == 0
\* Faulty variant: the first item is not counted.
Count_new_zero(item) == usize_wrapping_add(0, 0)
Count_new(item) == 1
Count_reduce(state, item) == usize_wrapping_add(state, 1)
\* state + 1 panics on overflow when overflow checks are compiled in.
Count_reduce_panics(state, item) == overflow_checks /\ usize_add_overflows(state, 1)
Count_into_result(state) == state

CountNonZero_new(item) == 1
CountNonZero_reduce(state, item) == usize_wrapping_add(state, 1)
\* (state.get() + 1).try_into().unwrap(): the addition panics on overflow in a
\* debug build; in a release build it wraps to 0, NonZeroUsize::try_from(0) is
\* Err and unwrap panics.
\* Faulty variant: the overflow is caught by the profile's overflow check alone.
CountNonZero_reduce_panics_debug_only(state, item) ==
    overflow_checks /\ usize_add_overflows(state, 1)
CountNonZero_reduce_panics(state, item) ==
    \/ overflow_checks /\ usize_add_overflows(state, 1)
    \/ usize_wrapping_add(state, 1) = 0
CountNonZero_into_result(state) == state

-----------------------------------------------------------------------------
(* reductors/sum.rs, reductors/product.rs                                   *)

Sum_default == iter_sum(<<>>)
Sum_new(item) == iter_sum(<<item>>)
Sum_reduce(state, item) == iter_sum(<<state, Sum_new(item)>>)
Sum_into_result(state) == state

\* Faulty variant: the additive identity taken for the empty product.
Product_State_default_zero == iter_sum(<<>>)
Product_State_default == iter_product(<<>>)
Product_default == Product_State_default
\* Faulty variant: new drops its item.
Product_new_identity(item) == iter_product(<<>>)
Product_new(item) == iter_product(<<item>>)
Product_reduce(state, item) == iter_product(<<state, Product_new(item)>>)
Product_into_result(state) == state

-----------------------------------------------------------------------------
(* reductors/min_max.rs, reductors/state.rs, reductors/mean.rs              *)

Min_new(v) == v
Min_reduce(state, item) == cmp_min(state, item)
Min_into_result(state) == state
Max_new(v) == v
Max_reduce(state, item) == cmp_max(state, item)
Max_into_result(state) == state

\* Default for NonEmptyState<Option<T>>
NonEmptyState_default == None
MinOpt_new(v) == Some(v)
\* Faulty variant: the None arm keeps None.
MinOpt_reduce_stays_none(state, item) ==
    IF IsSome(state) THEN Some(cmp_min(Unwrap(state), item)) ELSE None
MinOpt_reduce(state, item) ==
    IF IsSome(state) THEN Some(cmp_min(Unwrap(state), item)) ELSE MinOpt_new(item)
MinOpt_into_result(state) == state
MaxOpt_new(v) == Some(v)
MaxOpt_reduce(state, item) ==
    IF IsSome(state) THEN Some(cmp_max(Unwrap(state), item)) ELSE MaxOpt_new(item)
MaxOpt_into_result(state) == state

Mean_new(item) == [mean |-> IntoFloat(item), count |-> 1]
Mean_reduce(state, item) ==
    [mean |-> MeanStep(state.mean, state.count, item),
     count |-> usize_wrapping_add(state.count, 1)]
\* count + 1 panics on overflow when overflow checks are compiled in.
Mean_reduce_panics(state, item) ==
    overflow_checks /\ usize_add_overflows(state.count, 1)
Mean_into_result(state) == state.mean

-----------------------------------------------------------------------------
(* reductor.rs: the combinators                                             *)

Option_default == None
Option_new(r, item) == Some(new(r, item))
\* Faulty variant: every item starts a new state.
Option_reduce_renew(r, state, item) == Some(new(r, item))
\* Faulty variant: the None arm reduces the item into the state it made of it.
Option_reduce_first_twice(r, state, item) ==
    Some(IF IsSome(state) THEN reduce(r, Unwrap(state), item)
                          ELSE reduce(r, new(r, item), item))
Option_reduce(r, state, item) ==
    Some(IF IsSome(state) THEN reduce(r, Unwrap(state), item) ELSE new(r, item))
\* The calls Option::new and Option::reduce make to the wrapped reductor:
\* new makes one R::new; reduce makes one R::new in its None arm and one
\* R::reduce in its Some arm.
Option_new_calls(c) == [c EXCEPT !.new = @ + 1]
Option_reduce_calls(c, state) ==
    IF IsSome(state) THEN [c EXCEPT !.reduce = @ + 1] ELSE [c EXCEPT !.new = @ + 1]
Option_reduce_panics(r, state, item) ==
    IsSome(state) /\ reduce_panics(r, Unwrap(state), item)
\* state.map(R::into_result)
Option_into_result(r, state) ==
    IF IsSome(state) THEN Some(into_result(r, Unwrap(state))) ELSE None

Tuple_default(rs) == [i \in 1..Len(rs) |-> default(rs[i])]
Tuple_new(rs, item) == [i \in 1..Len(rs) |-> new(rs[i], item[i])]
\* Faulty variant: every slot is fed position 0 of the item.
Tuple_reduce_crosstalk(rs, state, item) ==
    [i \in 1..Len(rs) |-> reduce(rs[i], state[i], item[1])]
Tuple_reduce(rs, state, item) ==
    [i \in 1..Len(rs) |-> reduce(rs[i], state[i], item[i])]
Tuple_reduce_panics(rs, state, item) ==
    \E i \in 1..Len(rs) : reduce_panics(rs[i], state[i], item[i])
Tuple_into_result(rs, state) == [i \in 1..Len(rs) |-> into_result(rs[i], state[i])]

ReductorPair_default(r1, r2) == <<default(r1), default(r2)>>
ReductorPair_new(r1, r2, item) == <<new(r1, Clone(item)), new(r2, item)>>
\* Faulty variant: the item is moved into the first reductor and the second is left out.
ReductorPair_reduce_first_only(r1, r2, state, item) ==
    <<reduce(r1, state[1], item), state[2]>>
ReductorPair_reduce(r1, r2, state, item) ==
    <<reduce(r1, state[1], Clone(item)), reduce(r2, state[2], item)>>
ReductorPair_reduce_panics(r1, r2, state, item) ==
    reduce_panics(r1, state[1], Clone(item)) \/ reduce_panics(r2, state[2], item)
ReductorPair_into_result(r1, r2, state) ==
    <<into_result(r1, state[1]), into_result(r2, state[2])>>

-----------------------------------------------------------------------------
(* The Reductor trait: static dispatch on the reductor type                 *)

new(r, item) ==
    CASE r.k = "Count" -> Count_new(item)
      [] r.k = "CountNonZero" -> CountNonZero_new(item)
      [] r.k = "Sum" -> Sum_new(item)
      [] r.k = "Product" -> Product_new(item)
      [] r.k = "Min" -> Min_new(item)
      [] r.k = "Max" -> Max_new(item)
      [] r.k = "MinOpt" -> MinOpt_new(item)
      [] r.k = "MaxOpt" -> MaxOpt_new(item)
      [] r.k = "Mean" -> Mean_new(item)
      [] r.k = "Option" -> Option_new(r.a, item)
      [] r.k = "Tuple" -> Tuple_new(r.rs, item)
      [] r.k = "ReductorPair" -> ReductorPair_new(r.a, r.b, item)

reduce(r, state, item) ==
    CASE r.k = "Count" -> Count_reduce(state, item)
      [] r.k = "CountNonZero" -> CountNonZero_reduce(state, item)
      [] r.k = "Sum" -> Sum_reduce(state, item)
      [] r.k = "Product" -> Product_reduce(state, item)
      [] r.k = "Min" -> Min_reduce(state, item)
      [] r.k = "Max" -> Max_reduce(state, item)
      [] r.k = "MinOpt" -> MinOpt_reduce(state, item)
      [] r.k = "MaxOpt" -> MaxOpt_reduce(state, item)
      [] r.k = "Mean" -> Mean_reduce(state, item)
      [] r.k = "Option" -> Option_reduce(r.a, state, item)
      [] r.k = "Tuple" -> Tuple_reduce(r.rs, state, item)
      [] r.k = "ReductorPair" -> ReductorPair_reduce(r.a, r.b, state, item)

\* Whether reduce(r, state, item) panics instead of returning.
reduce_panics(r, state, item) ==
    CASE r.k = "Count" -> Count_reduce_panics(state, item)
      [] r.k = "CountNonZero" -> CountNonZero_reduce_panics(state, item)
      [] r.k = "Mean" -> Mean_reduce_panics(state, item)
      [] r.k = "Option" -> Option_reduce_panics(r.a, state, item)
      [] r.k = "Tuple" -> Tuple_reduce_panics(r.rs, state, item)
      [] r.k = "ReductorPair" -> ReductorPair_reduce_panics(r.a, r.b, state, item)
      [] OTHER -> FALSE

into_result(r, state) ==
    CASE r.k = "Count" -> Count_into_result(state)
      [] r.k = "CountNonZero" -> CountNonZero_into_result(state)
      [] r.k = "Sum" -> Sum_into_result(state)
      [] r.k = "Product" -> Product_into_result(state)
      [] r.k = "Min" -> Min_into_result(state)
      [] r.k = "Max" -> Max_into_result(state)
      [] r.k = "MinOpt" -> MinOpt_into_result(state)
      [] r.k = "MaxOpt" -> MaxOpt_into_result(state)
      [] r.k = "Mean" -> Mean_into_result(state)
      [] r.k = "Option" -> Option_into_result(r.a, state)
      [] r.k = "Tuple" -> Tuple_into_result(r.rs, state)
      [] r.k = "ReductorPair" -> ReductorPair_into_result(r.a, r.b, state)

\* The reductor types a Default value exists for.
HasDefault(r) ==
    CASE r.k \in {"Count", "Sum", "Product", "MinOpt", "MaxOpt", "Option"} -> TRUE
      [] r.k = "Tuple" -> \A i \in 1..Len(r.rs) : HasDefault(r.rs[i])
      [] r.k = "ReductorPair" -> HasDefault(r.a) /\ HasDefault(r.b)
      [] OTHER -> FALSE

default(r) ==
    CASE r.k = "Count" -> Count_default
      [] r.k = "Sum" -> Sum_default
      [] r.k = "Product" -> Product_default
      [] r.k \in {"MinOpt", "MaxOpt"} -> NonEmptyState_default
      [] r.k = "Option" -> Option_default
      [] r.k = "Tuple" -> Tuple_default(r.rs)
      [] r.k = "ReductorPair" -> ReductorPair_default(r.a, r.b)

\* Iterator::fold(state, R::reduce) over the items s.
RECURSIVE fold(_, _, _)
fold(r, state, s) ==
    IF s = <<>> THEN state ELSE fold(r, reduce(r, state, Head(s)), Tail(s))

-----------------------------------------------------------------------------
(* The runs that are explored                                               *)

IsCounter(r) == r.k \in {"Count", "CountNonZero"}

\* The items an iterator feeding reductor r yields.  Scalars are drawn from
\* scalars.  Tuples are drawn from a family in which the positions differ from
\* one another: position i holds (a * i + b) % (MaxVal + 1), a from slopes and
\* b from Bits.  Count and CountNonZero take any item type, so a pair with a
\* counter takes the other side's items.
RECURSIVE ItemsOf(_, _, _)
ItemsOf(r, scalars, slopes) ==
    CASE r.k = "Option" -> ItemsOf(r.a, scalars, slopes)
      [] r.k = "ReductorPair" ->
            IF IsCounter(r.a) THEN ItemsOf(r.b, scalars, slopes)
                              ELSE ItemsOf(r.a, scalars, slopes)
      [] r.k = "Tuple" ->
            {[i \in 1..Len(r.rs) |-> (a * i + b) % (MaxVal + 1)] : a \in slopes, b \in Bits}
      [] OTHER -> scalars

\* The composite of the crate documentation (lib.rs), with ReductorPair for
\* its Reductors.
DocNested == Option(ReductorPair(Count, Tuple(<<Sum, ReductorPair(Min, Max)>>)))

\* Reductors run over at most MaxLen values drawn from Vals.
ShortRs ==
    { Sum, Product, Min, Max, MinOpt, MaxOpt, Mean,
      Option(Sum), Option(Min), Option(Max), Option(Mean),
      ReductorPair(Min, Max), Option(ReductorPair(Min, Max)),
      ReductorPair(MinOpt, Sum), Option(ReductorPair(CountNonZero, Max)),
      Tuple(<<Sum, Product>>), Option(Tuple(<<Min, Mean>>)),
      Tuple(<<Sum, Product, MaxOpt>>),
      Tuple(<<Count, Sum, Product, MinOpt, Option(Max)>>),
      DocNested }

\* Reductors with a usize counter, run until the counter overflows, over Bits.
LongRs ==
    { Count, CountNonZero, Option(CountNonZero),
      ReductorPair(CountNonZero, Max),
      Option(Tuple(<<CountNonZero, Sum>>)) }

Reductors == ShortRs \cup LongRs

RunLen(r) == IF r \in LongRs THEN UsizeMax + 1 ELSE MaxLen
Items(r) == IF r \in LongRs THEN ItemsOf(r, Bits, {0}) ELSE ItemsOf(r, Vals, Vals)

\* The values the run has consumed: fold_with's init and the items yielded.
Consumed == Len(seen) + (IF entry = "fold_with" THEN 1 ELSE 0)

-----------------------------------------------------------------------------
(* iter.rs: the entry points, one Iterator::fold step per action            *)

Init ==
    /\ R \in Reductors
    /\ overflow_checks \in BOOLEAN
    /\ entry = "none"
    /\ init = <<>>
    /\ acc = <<>>
    /\ seen = <<>>
    /\ result = <<>>
    /\ pc = "start"
    /\ calls = [new |-> 0, reduce |-> 0, into_result |-> 0]
    /\ adapter = [new |-> 0, reduce |-> 0]

\* reduce_with::<R>(): let reductor = R::default();
CallReduceWith ==
    /\ pc = "start"
    /\ HasDefault(R)
    /\ entry' = "reduce_with"
    /\ acc' = default(R)
    /\ pc' = "fold"
    /\ UNCHANGED <<R, init, seen, result, calls, adapter, overflow_checks>>

\* Faulty variant: fold_with reduces init into the state new(init) once more.
CallFoldWith_init_twice ==
    /\ pc = "start"
    /\ \E i \in Items(R) :
          /\ init' = i
          /\ acc' = reduce(R, new(R, i), i)
    /\ entry' = "fold_with"
    /\ calls' = [calls EXCEPT !.new = @ + 1]
    /\ adapter' = IF R.k = "Option" THEN Option_new_calls(adapter) ELSE adapter
    /\ pc' = "fold"
    /\ UNCHANGED <<R, seen, result, overflow_checks>>

\* fold_with::<R>(init): let reductor = R::new(init);
CallFoldWith ==
    /\ pc = "start"
    /\ \E i \in Items(R) :
          /\ init' = i
          /\ acc' = new(R, i)
    /\ entry' = "fold_with"
    /\ calls' = [calls EXCEPT !.new = @ + 1]
    /\ adapter' = IF R.k = "Option" THEN Option_new_calls(adapter) ELSE adapter
    /\ pc' = "fold"
    /\ UNCHANGED <<R, seen, result, overflow_checks>>

\* self.fold(reductor, R::reduce): the iterator yields an item and reduce
\* returns the next accumulator.
FoldStep ==
    /\ pc = "fold"
    /\ Consumed < RunLen(R)
    /\ \E item \in Items(R) :
          /\ ~reduce_panics(R, acc, item)
          /\ acc' = reduce(R, acc, item)
          /\ seen' = Append(seen, item)
    /\ calls' = [calls EXCEPT !.reduce = @ + 1]
    /\ adapter' = IF R.k = "Option" THEN Option_reduce_calls(adapter, acc) ELSE adapter
    /\ UNCHANGED <<R, entry, init, result, pc, overflow_checks>>

\* self.fold(reductor, R::reduce): the iterator yields an item and reduce
\* panics; the unwinding drops the accumulator and nothing is returned.
FoldPanic ==
    /\ pc = "fold"
    /\ Consumed < RunLen(R)
    /\ \E item \in Items(R) :
          /\ reduce_panics(R, acc, item)
          /\ seen' = Append(seen, item)
    /\ acc' = <<>>
    /\ calls' = [calls EXCEPT !.reduce = @ + 1]
    /\ adapter' = IF R.k = "Option" THEN Option_reduce_calls(adapter, acc) ELSE adapter
    /\ pc' = "panicked"
    /\ UNCHANGED <<R, entry, init, result, overflow_checks>>

\* The iterator is exhausted: fold returns the accumulator, and the entry
\* point returns what fold returned.
FoldEnd ==
    /\ pc = "fold"
    /\ result' = acc
    /\ pc' = "done"
    /\ UNCHANGED <<R, entry, init, acc, seen, calls, adapter, overflow_checks>>

Next == CallReduceWith \/ CallFoldWith \/ FoldStep \/ FoldPanic \/ FoldEnd

Spec == Init /\ [][Next]_vars

-----------------------------------------------------------------------------
(* Reference notions the properties are stated with                         *)

\* Position i of every item of a sequence of tuples.
Proj(s, i) == [j \in 1..Len(s) |-> s[j][i]]

\* Every value the run has consumed, in order: fold_with's init, then the items.
Values == IF entry = "fold_with" THEN <<init>> \o seen ELSE seen

\* The lifecycle of the Reductor documentation on a non-empty sequence: new on
\* the first item, reduce on each later item in order.
Lifecycle(r, s) == fold(r, new(r, Head(s)), Tail(s))
\* ... followed by into_result.
AloneResult(r, s) == into_result(r, Lifecycle(r, s))

\* The state reductor r reaches alone, started the way the running entry point
\* starts it (its default, or new on its part i0 of init), over the items s.
AloneState(r, i0, s) ==
    IF entry = "reduce_with" THEN fold(r, default(r), s) ELSE fold(r, new(r, i0), s)

\* The least and the greatest item of a non-empty sequence.
MinOf(s) == CHOOSE m \in {s[j] : j \in 1..Len(s)} : \A j \in 1..Len(s) : m <= s[j]
MaxOf(s) == CHOOSE m \in {s[j] : j \in 1..Len(s)} : \A j \in 1..Len(s) : m >= s[j]

Running == pc \in {"fold", "done"}

-----------------------------------------------------------------------------
(* C1 *)

\* C1: reduce_with::<Option<R>>() returns None on the empty sequence and, on a
\* non-empty one, Some(r) with r the result R alone produces on the sequence
\* (new on the first item, reduce on the later ones, then into_result).
C1_OptionAdapterResult ==
    (pc = "done" /\ entry = "reduce_with" /\ R.k = "Option") =>
        result = IF seen = <<>> THEN None ELSE Some(AloneResult(R.a, seen))

-----------------------------------------------------------------------------
(* C2 *)

\* C2: slot k of a tuple reductor's state is, after every step, the state R_k
\* reaches alone on the items at position k, and slot k of its result is R_k's
\* result on them; the same for a tuple under the Option adapter.
C2_TupleIndependence ==
    /\ (Running /\ R.k = "Tuple") =>
          \A i \in 1..Len(R.rs) :
             LET alone == AloneState(R.rs[i], init[i], Proj(seen, i))
             IN  /\ acc[i] = alone
                 /\ into_result(R, acc)[i] = into_result(R.rs[i], alone)
    /\ (Running /\ R.k = "Option" /\ R.a.k = "Tuple" /\ Values # <<>>) =>
          /\ IsSome(acc)
          /\ \A i \in 1..Len(R.a.rs) :
                /\ Unwrap(acc)[i] = Lifecycle(R.a.rs[i], Proj(Values, i))
                /\ Unwrap(into_result(R, acc))[i] = AloneResult(R.a.rs[i], Proj(Values, i))

C2_Witness ==
    /\ pc = "done"
    /\ R = Tuple(<<Sum, Product>>)
    /\ entry = "reduce_with"
    /\ seen = << <<1, 2>>, <<1, 1>>, <<2, 1>> >>
    /\ result = <<4, 2>>

-----------------------------------------------------------------------------
(* C3 *)

\* C3: both sides of a ReductorPair hold, after every step, the state that side
\* reaches alone on the same values, and the pair's result is the pair of the
\* two results; the same for a pair under the Option adapter.
C3_PairFidelity ==
    /\ (Running /\ R.k = "ReductorPair") =>
          LET a1 == AloneState(R.a, init, seen)
              a2 == AloneState(R.b, init, seen)
          IN  /\ acc = <<a1, a2>>
              /\ into_result(R, acc) = <<into_result(R.a, a1), into_result(R.b, a2)>>
    /\ (Running /\ R.k = "Option" /\ R.a.k = "ReductorPair" /\ Values # <<>>) =>
          /\ acc = Some(<<Lifecycle(R.a.a, Values), Lifecycle(R.a.b, Values)>>)
          /\ into_result(R, acc) =
                Some(<<AloneResult(R.a.a, Values), AloneResult(R.a.b, Values)>>)

C3_Witness ==
    /\ pc = "done"
    /\ R = ReductorPair(MinOpt, Sum)
    /\ entry = "reduce_with"
    /\ seen = <<2, 1, 2>>
    /\ result = <<Some(1), 5>>

-----------------------------------------------------------------------------
(* C4 *)

\* C4: reduce_with starts from the default state, calls reduce once per item in
\* source order, then calls into_result exactly once on the final state and
\* returns that value (a Result, not the State).
C4_ReduceWithReturnsResult ==
    (pc = "done" /\ entry = "reduce_with") =>
        /\ calls.reduce = Len(seen)
        /\ result = into_result(R, fold(R, default(R), seen))
        /\ calls.into_result = 1

-----------------------------------------------------------------------------
(* C5 *)

\* reduce_with::<R>() as a function of the items: fold from R::default().
reduce_with(r, s) == fold(r, default(r), s)

\* C5: fold_with(init) returns what reduce_with returns on the same items when
\* init is the natural default (0 for Sum, 1 for Product); for Product and any
\* init it returns init times the product of the items.
C5_FoldWithNaturalDefault ==
    (pc = "done" /\ entry = "fold_with") =>
        /\ (R = Sum /\ init = 0) => result = reduce_with(Sum, seen)
        /\ (R = Product /\ init = 1) => result = reduce_with(Product, seen)
        /\ (R = Product) => result = init * iter_product(seen)

C5_Witness ==
    /\ pc = "done"
    /\ entry = "fold_with"
    /\ R = Product
    /\ init = 2
    /\ seen = <<2, 1>>
    /\ result = 4

-----------------------------------------------------------------------------
(* C6 *)

\* C6 as stated: new(i1) folded with reduce over [i2..iN] is the state reached
\* by folding reduce over the entire sequence [i1..iN] from new(i1).  Values is
\* [i1..iN] and acc is new(i1) folded over [i2..iN].
C6_EquivalenceLawWholeSequence ==
    (Running /\ entry = "fold_with") => acc = fold(R, new(R, init), Values)

\* C6 amended: fold_with(i1) over the remaining items [i2..iN] holds new(i1)
\* folded with reduce over [i2..iN]; folding over the entire sequence from
\* new(i1) agrees with it for Min and Max, which absorb the repeated i1.
C6_EquivalenceLaw ==
    (Running /\ entry = "fold_with") =>
        /\ acc = fold(R, new(R, init), seen)
        /\ calls.new = 1
        /\ calls.reduce = Len(seen)
        /\ (R \in {Min, Max, ReductorPair(Min, Max)}) =>
              acc = fold(R, new(R, init), Values)

C6_Witness ==
    /\ pc = "done"
    /\ entry = "fold_with"
    /\ R = Sum
    /\ init = 1
    /\ seen = <<2, 2>>
    /\ result = 5

-----------------------------------------------------------------------------
(* C7 *)

OneToTen == [i \in 1..10 |-> i]

\* C7: reduce_with on the empty sequence returns 0 for Sum, 1 for Product and
\* 0 for Count; on N items Count returns N (N representable in usize), Sum the
\* sum and Product the product of the items; 1..10 gives 55 and 3628800.
C7_IdentityLaw ==
    /\ (pc = "done" /\ entry = "reduce_with" /\ R = Sum) =>
          /\ result = iter_sum(seen)
          /\ seen = <<>> => result = 0
    /\ (pc = "done" /\ entry = "reduce_with" /\ R = Product) =>
          /\ result = iter_product(seen)
          /\ seen = <<>> => result = 1
    /\ (pc = "done" /\ entry = "reduce_with" /\ R = Count /\ Len(seen) <= UsizeMax) =>
          /\ result = Len(seen)
          /\ seen = <<>> => result = 0
    /\ into_result(Sum, reduce_with(Sum, OneToTen)) = 55
    /\ into_result(Product, reduce_with(Product, OneToTen)) = 3628800

C7_Witness ==
    /\ pc = "done"
    /\ entry = "reduce_with"
    /\ R = Product
    /\ seen = <<2, 1, 2>>
    /\ result = 4

-----------------------------------------------------------------------------
(* C8 *)

\* C8: Min and Max have no default state; Option<Min> / Option<Max> through
\* reduce_with return None on [] and Some(least / greatest item) otherwise, and
\* so do Min<Option<T>> / Max<Option<T>>, which therefore hold the same optional
\* value as the Option adapter; [3,1,4,1,5] gives 1.
C8_MinMaxEmpty ==
    /\ ~HasDefault(Min) /\ ~HasDefault(Max)
    /\ (pc = "done" /\ entry = "reduce_with" /\ R \in {Option(Min), MinOpt}) =>
          /\ result = IF seen = <<>> THEN None ELSE Some(MinOf(seen))
          /\ into_result(R, acc) = into_result(Option(Min), reduce_with(Option(Min), seen))
          /\ into_result(R, acc) = into_result(MinOpt, reduce_with(MinOpt, seen))
    /\ (pc = "done" /\ entry = "reduce_with" /\ R \in {Option(Max), MaxOpt}) =>
          /\ result = IF seen = <<>> THEN None ELSE Some(MaxOf(seen))
          /\ into_result(R, acc) = into_result(Option(Max), reduce_with(Option(Max), seen))
          /\ into_result(R, acc) = into_result(MaxOpt, reduce_with(MaxOpt, seen))
    /\ into_result(Option(Min), reduce_with(Option(Min), <<3, 1, 4, 1, 5>>)) = Some(1)
    /\ into_result(Option(Min), reduce_with(Option(Min), <<>>)) = None

C8_Witness ==
    /\ pc = "done"
    /\ entry = "reduce_with"
    /\ R = Option(Min)
    /\ seen = <<2, 0, 1>>
    /\ result = Some(0)

-----------------------------------------------------------------------------
(* C9 *)

\* C9: the nested composite Option<Reductors<(Count, (Sum, Reductors<(Min,
\* Max)>))>> over pairs, in one pass: None exactly on the empty sequence, else
\* each leaf holds what that leaf reductor gives alone on its stream (Count the
\* pairs, Sum the first components, Min and Max the second components), and
\* reduce was called once per item.
C9_NestedComposite ==
    /\ (Running /\ R = DocNested /\ entry = "reduce_with") =>
          /\ calls.reduce = Len(seen)
          /\ (acc = None) <=> (seen = <<>>)
    /\ (pc = "done" /\ R = DocNested /\ entry = "reduce_with") =>
          /\ (result = None) <=> (seen = <<>>)
          /\ seen # <<>> =>
                /\ result =
                      Some(<< AloneResult(Count, seen),
                              << AloneResult(Sum, Proj(seen, 1)),
                                 << AloneResult(Min, Proj(seen, 2)),
                                    AloneResult(Max, Proj(seen, 2)) >> >> >>)
                /\ result =
                      Some(<< Len(seen),
                              << iter_sum(Proj(seen, 1)),
                                 << MinOf(Proj(seen, 2)), MaxOf(Proj(seen, 2)) >> >> >>)

C9_Witness ==
    /\ pc = "done"
    /\ R = DocNested
    /\ entry = "reduce_with"
    /\ seen = << <<1, 2>>, <<2, 0>>, <<2, 1>> >>
    /\ result = Some(<<3, <<5, <<0, 2>>>>>>)

-----------------------------------------------------------------------------
(* C10 *)

\* The runs whose accumulator holds a CountNonZero state, and that state.
CnzRs ==
    { CountNonZero, Option(CountNonZero), ReductorPair(CountNonZero, Max),
      Option(Tuple(<<CountNonZero, Sum>>)), Option(ReductorPair(CountNonZero, Max)) }
CnzState(a) ==
    CASE R = CountNonZero -> a
      [] R = Option(CountNonZero) -> Unwrap(a)
      [] R = ReductorPair(CountNonZero, Max) -> a[1]
      [] OTHER -> Unwrap(a)[1]

\* C10: a CountNonZero state is never zero: it is the number of values consumed
\* (1 after the first, one more per later item); the reduce step taken at
\* usize::MAX panics in either build profile, alone or inside a tuple, a pair
\* or the Option adapter, and the run then returns nothing.
C10_CountNonZeroNeverZero ==
    (R \in CnzRs) =>
        /\ (Running /\ Values # <<>>) =>
              /\ CnzState(acc) = Len(Values)
              /\ CnzState(acc) \in 1..UsizeMax
        /\ (pc = "done" /\ Values # <<>>) => CnzState(result) # 0
        /\ (Len(Values) > UsizeMax) => pc = "panicked"
        /\ (pc = "panicked") =>
              /\ Len(Values) = UsizeMax + 1
              /\ result = <<>>
              /\ ~ENABLED Next

C10_Witness ==
    /\ pc = "panicked"
    /\ R = ReductorPair(CountNonZero, Max)
    /\ ~overflow_checks
    /\ Len(seen) = UsizeMax

-----------------------------------------------------------------------------
(* C11 *)

\* C11: in a reduce_with run of the Option adapter the state is None exactly
\* while no item has been processed; the first reduce makes it Some(R::new(item))
\* with one R::new call and no R::reduce call; every later reduce calls R::reduce
\* and never R::new, and the state stays Some: R::new is called once per
\* non-empty run, and on the empty run into_result maps nothing (None).
C11_OptionAdapterLifecycle ==
    (R.k = "Option" /\ entry = "reduce_with") =>
        /\ Running =>
              /\ (acc = None) <=> (seen = <<>>)
              /\ seen # <<>> => acc = Some(Lifecycle(R.a, seen))
              /\ Len(seen) = 1 => acc = Some(new(R.a, seen[1]))
              /\ seen = <<>> => into_result(R, acc) = None
        /\ adapter.new = (IF seen = <<>> THEN 0 ELSE 1)
        /\ adapter.reduce = (IF seen = <<>> THEN 0 ELSE Len(seen) - 1)
        /\ adapter.new + adapter.reduce = calls.reduce

C11_Witness ==
    /\ pc = "done"
    /\ R = Option(Sum)
    /\ entry = "reduce_with"
    /\ seen = <<2, 1, 2>>
    /\ result = Some(5)
    /\ adapter = [new |-> 1, reduce |-> 2]

-----------------------------------------------------------------------------
(* C12 *)

\* C12: for every reductor with a default state D, reduce(D, x) = new(x) for
\* every item x; so a reduce_with run over a non-empty sequence holds the state
\* that new on the first item followed by reduce on the rest reaches.
C12_DefaultIsNewless ==
    HasDefault(R) =>
        /\ \A x \in Items(R) : reduce(R, default(R), x) = new(R, x)
        /\ (Running /\ entry = "reduce_with" /\ seen # <<>>) => acc = Lifecycle(R, seen)

C12_Witness ==
    /\ pc = "done"
    /\ R = Tuple(<<Count, Sum, Product, MinOpt, Option(Max)>>)
    /\ entry = "reduce_with"
    /\ Len(seen) = 3
    /\ result[1] = 3

====
